---- MODULE Spec2Model ----
(***************************************************************************)
(* Model of music_assistant_models/streamdetails.py: the StreamDetails     *)
(* dataclass, its generated constructor and equality, the mashumaro        *)
(* to_dict / from_dict pair driven by the field metadata, the uri property *)
(* and the __post_serialize__ compatibility shim.                          *)
(*                                                                         *)
(* Python values are tagged tuples <<tag, payload>>; a str is a sequence   *)
(* of one-character strings so that str.replace and the uri f-string are   *)
(* computed character by character.  A record and a dict are functions     *)
(* from field names to values.                                             *)
(***************************************************************************)
EXTENDS Integers, Sequences, FiniteSets, TLC

VARIABLES recs, clock, last

vars == <<recs, clock, last>>

\* Number of operations performed in one behaviour (also the clock range).
MaxOps == 2

(***************************************************************************)
(* Values                                                                  *)
(***************************************************************************)
None == <<"None">>
Str(s) == <<"str", s>>
IntVal(i) == <<"int", i>>
FloatVal(x) == <<"float", x>>
Bool(b) == <<"bool", b>>
List(xs) == <<"list", xs>>
Obj(x) == <<"obj", x>>
Datetime(t) == <<"datetime", t>>
Enum(cls, member) == <<cls, member>>
AudioFormat(x) == <<"AudioFormat", x>>
DSPDict(players) == <<"dict[str, DSPDetails]", players>>
WireDict(x) == <<"dict", x>>

s_spotify == <<"s", "p", "o", "t", "i", "f", "y">>
s_123 == <<"1", "2", "3">>
s_cache == <<"c", "a", "c", "h", "e">>
s_multi_file == <<"m", "u", "l", "t", "i", "_", "f", "i", "l", "e">>
s_local_file == <<"l", "o", "c", "a", "l", "_", "f", "i", "l", "e">>
s_custom == <<"c", "u", "s", "t", "o", "m">>
s_encrypted_http == <<"e", "n", "c", "r", "y", "p", "t", "e", "d", "_", "h", "t", "t", "p">>
s_icy == <<"i", "c", "y">>
s_hls == <<"h", "l", "s">>
s_track == <<"t", "r", "a", "c", "k">>
s_radio == <<"r", "a", "d", "i", "o">>
s_dynamic == <<"d", "y", "n", "a", "m", "i", "c">>
s_disabled == <<"d", "i", "s", "a", "b", "l", "e", "d">>
s_unknown_value == <<"u", "n", "k", "n", "o", "w", "n", "_", "v", "a", "l", "u", "e">>

(***************************************************************************)
(* The enumerations imported from .enums                                   *)
(***************************************************************************)
StreamTypeMembers == {"CUSTOM", "LOCAL_FILE", "ENCRYPTED_HTTP", "ICY", "HLS", "CACHE", "MULTI_FILE"}
MediaTypeMembers == {"TRACK", "RADIO"}
VolumeNormalizationModeMembers == {"DYNAMIC", "DISABLED"}

EnumMembers(cls) ==
    CASE cls = "StreamType" -> StreamTypeMembers
      [] cls = "MediaType" -> MediaTypeMembers
      [] cls = "VolumeNormalizationMode" -> VolumeNormalizationModeMembers

\* member.value
EnumValue(cls, member) ==
    CASE member = "CUSTOM" -> s_custom
      [] member = "LOCAL_FILE" -> s_local_file
      [] member = "ENCRYPTED_HTTP" -> s_encrypted_http
      [] member = "ICY" -> s_icy
      [] member = "HLS" -> s_hls
      [] member = "CACHE" -> s_cache
      [] member = "MULTI_FILE" -> s_multi_file
      [] member = "TRACK" -> s_track
      [] member = "RADIO" -> s_radio
      [] member = "DYNAMIC" -> s_dynamic
      [] member = "DISABLED" -> s_disabled

(***************************************************************************)
(* The declared fields, in declaration order, with their metadata          *)
(***************************************************************************)
FieldOrder ==
    << "provider", "item_id", "audio_format", "media_type", "stream_type",
       "duration", "size", "stream_title",
       "path", "data", "extra_input_args", "decryption_key",
       "allow_seek", "can_seek", "enable_cache",
       "loudness", "loudness_album", "prefer_album_loudness",
       "volume_normalization_mode", "volume_normalization_gain_correct",
       "target_loudness", "strip_silence_begin", "strip_silence_end", "dsp",
       "fade_in", "seek_position", "queue_id", "seconds_streamed",
       "stream_error", "cache", "created_at" >>

FieldNames == {FieldOrder[i] : i \in DOMAIN FieldOrder}

\* fields declared without a default
RequiredFields == {"provider", "item_id", "audio_format"}

\* fields declared with compare=False
CompareFalse ==
    {"path", "data", "extra_input_args", "decryption_key", "allow_seek",
     "can_seek", "enable_cache", "fade_in", "seek_position", "queue_id",
     "seconds_streamed", "stream_error", "cache", "created_at"}

\* variant: decryption_key declared without serialize="omit"
SerializeOmit_without_decryption_key ==
    {"path", "data", "extra_input_args", "allow_seek",
     "can_seek", "enable_cache", "fade_in", "seek_position", "queue_id",
     "seconds_streamed", "stream_error", "cache", "created_at"}

\* fields declared with field_options(serialize="omit")
SerializeOmit ==
    {"path", "data", "extra_input_args", "decryption_key", "allow_seek",
     "can_seek", "enable_cache", "fade_in", "seek_position", "queue_id",
     "seconds_streamed", "stream_error", "cache", "created_at"}

\* variant: seek_position declared without deserialize=pass_through
DeserializePassThrough_without_seek_position ==
    {"path", "data", "extra_input_args", "decryption_key", "allow_seek",
     "can_seek", "enable_cache", "fade_in", "queue_id",
     "seconds_streamed", "stream_error", "cache", "created_at"}

\* fields declared with field_options(deserialize=pass_through)
DeserializePassThrough ==
    {"path", "data", "extra_input_args", "decryption_key", "allow_seek",
     "can_seek", "enable_cache", "fade_in", "seek_position", "queue_id",
     "seconds_streamed", "stream_error", "cache", "created_at"}

\* the declared type of a field: <<optional, base type>>
FieldType(f) ==
    CASE f \in {"provider", "item_id"} -> <<FALSE, "str">>
      [] f = "audio_format" -> <<FALSE, "AudioFormat">>
      [] f = "media_type" -> <<FALSE, "MediaType">>
      [] f = "stream_type" -> <<FALSE, "StreamType">>
      [] f \in {"duration", "size"} -> <<TRUE, "int">>
      [] f \in {"stream_title", "path", "decryption_key", "queue_id"} -> <<TRUE, "str">>
      [] f \in {"data", "cache"} -> <<TRUE, "Any">>
      [] f = "extra_input_args" -> <<FALSE, "list[str]">>
      [] f \in {"allow_seek", "can_seek", "prefer_album_loudness",
                "strip_silence_begin", "strip_silence_end", "fade_in"} -> <<FALSE, "bool">>
      [] f \in {"enable_cache", "stream_error"} -> <<TRUE, "bool">>
      [] f \in {"loudness", "loudness_album", "volume_normalization_gain_correct",
                "target_loudness", "seconds_streamed"} -> <<TRUE, "float">>
      [] f = "volume_normalization_mode" -> <<TRUE, "VolumeNormalizationMode">>
      [] f = "dsp" -> <<TRUE, "dict[str, DSPDetails]">>
      [] f = "seek_position" -> <<FALSE, "int">>
      [] f = "created_at" -> <<FALSE, "datetime">>

\* the declared default (or the result of the default_factory at time now)
FieldDefault(f, now) ==
    CASE f = "media_type" -> Enum("MediaType", "TRACK")
      [] f = "stream_type" -> Enum("StreamType", "CUSTOM")
      [] f = "extra_input_args" -> List(<< >>)
      [] f \in {"allow_seek", "can_seek", "prefer_album_loudness",
                "strip_silence_begin", "strip_silence_end", "fade_in"} -> Bool(FALSE)
      [] f = "seek_position" -> IntVal(0)
      [] f = "created_at" -> Datetime(now)
      [] OTHER -> None

(***************************************************************************)
(* str.replace(old, new): every non-overlapping occurrence, left to right  *)
(***************************************************************************)
RECURSIVE replace(_, _, _)
replace(s, old, new) ==
    IF Len(s) < Len(old) THEN s
    ELSE IF SubSeq(s, 1, Len(old)) = old
         THEN new \o replace(SubSeq(s, Len(old) + 1, Len(s)), old, new)
         ELSE <<Head(s)>> \o replace(Tail(s), old, new)

(***************************************************************************)
(* Per-type serialization strategies                                       *)
(***************************************************************************)
\* AudioFormat.to_dict / AudioFormat.from_dict (a nested dataclass)
SerializeAudioFormat(v) == WireDict(v[2])
DeserializeAudioFormat(w) == IF w[1] = "dict" THEN AudioFormat(w[2]) ELSE <<"InvalidFieldValue">>

\* {player_id: DSPDetails.to_dict()} and back
SerializeDSP(v) == WireDict(v[2])
DeserializeDSP(w) == IF w[1] = "dict" THEN DSPDict(w[2]) ELSE <<"InvalidFieldValue">>

IsEnumType(base) == base \in {"MediaType", "StreamType", "VolumeNormalizationMode"}

\* value -> wire value, by the declared type of the field
SerializeValue(type, v) ==
    IF type[1] /\ v = None THEN None
    ELSE CASE IsEnumType(type[2]) -> Str(EnumValue(v[1], v[2]))
           [] type[2] = "AudioFormat" -> SerializeAudioFormat(v)
           [] type[2] = "dict[str, DSPDetails]" -> SerializeDSP(v)
           [] OTHER -> v

\* Enum(value): the member with that value, or a ValueError
ParseEnum(cls, w) ==
    IF w[1] = "str" /\ \E m \in EnumMembers(cls) : EnumValue(cls, m) = w[2]
    THEN Enum(cls, CHOOSE m \in EnumMembers(cls) : EnumValue(cls, m) = w[2])
    ELSE <<"InvalidFieldValue">>

\* variant: the string of an enumeration field is stored as it is
DeserializeValue_unchecked_enum(type, w) ==
    IF type[1] /\ w = None THEN None
    ELSE CASE type[2] = "AudioFormat" -> DeserializeAudioFormat(w)
           [] type[2] = "dict[str, DSPDetails]" -> DeserializeDSP(w)
           [] type[2] \in {"int", "float"} -> IF w[1] = type[2] THEN w ELSE <<"InvalidFieldValue">>
           [] OTHER -> w

\* wire value -> value, by the declared type of the field; int(), float() and
\* bool() are applied to values that already have that type
DeserializeValue(type, w) ==
    IF type[1] /\ w = None THEN None
    ELSE CASE IsEnumType(type[2]) -> ParseEnum(type[2], w)
           [] type[2] = "AudioFormat" -> DeserializeAudioFormat(w)
           [] type[2] = "dict[str, DSPDetails]" -> DeserializeDSP(w)
           [] type[2] \in {"int", "float"} -> IF w[1] = type[2] THEN w ELSE <<"InvalidFieldValue">>
           [] OTHER -> w

(***************************************************************************)
(* The methods of StreamDetails                                            *)
(***************************************************************************)
Ok(rec) == [ok |-> TRUE, err |-> "none", rec |-> rec]
Raise(e) == [ok |-> FALSE, err |-> e, rec |-> << >>]

\* variant: a __post_init__ that rejects seek flags on a record without duration
dataclass_init_checks_seek(kwargs, now) ==
    IF ~(RequiredFields \subseteq DOMAIN kwargs) THEN Raise("TypeError")
    ELSE IF /\ "can_seek" \in DOMAIN kwargs
            /\ kwargs["can_seek"] = Bool(TRUE)
            /\ "duration" \notin DOMAIN kwargs
         THEN Raise("ValueError")
         ELSE Ok([f \in FieldNames |->
                     IF f \in DOMAIN kwargs THEN kwargs[f] ELSE FieldDefault(f, now)])

\* the generated __init__(self, *, provider, item_id, audio_format, ...=default)
dataclass_init(kwargs, now) ==
    IF ~(RequiredFields \subseteq DOMAIN kwargs) THEN Raise("TypeError")
    ELSE Ok([f \in FieldNames |->
                IF f \in DOMAIN kwargs THEN kwargs[f] ELSE FieldDefault(f, now)])

\* variant: every field takes part in the comparison
dataclass_eq_all_fields(self, other) ==
    \A f \in FieldNames : self[f] = other[f]

\* the generated __eq__: the tuples of the compare=True fields are equal
dataclass_eq(self, other) ==
    \A f \in FieldNames \ CompareFalse : self[f] = other[f]

\* variant: the media type segment is left out
uri_without_media_type(self) ==
    Str(self["provider"][2] \o <<":", "/", "/">> \o self["item_id"][2])

\* the uri property
uri(self) ==
    Str(self["provider"][2] \o <<":", "/", "/">>
        \o EnumValue(self["media_type"][1], self["media_type"][2])
        \o <<"/">> \o self["item_id"][2])

\* __str__
str(self) == uri(self)

\* variant: only the first of the two replacements
post_serialize_cache_only(self, d) ==
    [self |-> self,
     d |-> [d EXCEPT !["stream_type"] = Str(replace(@[2], s_cache, s_local_file))]]

\* variant: no replacement
post_serialize_no_remap(self, d) == [self |-> self, d |-> d]

\* variant: the replacements are applied to every string of the dict
post_serialize_every_value(self, d) ==
    [self |-> self,
     d |-> [k \in DOMAIN d |->
               IF d[k][1] = "str"
               THEN Str(replace(replace(d[k][2], s_cache, s_local_file),
                                s_multi_file, s_local_file))
               ELSE d[k]]]

\* __post_serialize__(self, d): the record and the dict after the call
post_serialize(self, d) ==
    LET d1 == [d EXCEPT !["stream_type"] = Str(replace(@[2], s_cache, s_local_file))]
        d2 == [d1 EXCEPT !["stream_type"] = Str(replace(@[2], s_multi_file, s_local_file))]
    IN  [self |-> self, d |-> d2]

\* variant: the rewritten stream type is written back to the record
to_dict_in_place(self) ==
    LET r == post_serialize(self, [k \in FieldNames \ SerializeOmit |->
                                      SerializeValue(FieldType(k), self[k])])
    IN  [self |-> [r.self EXCEPT !["stream_type"] =
                      IF @[2] \in {"CACHE", "MULTI_FILE"}
                      THEN Enum("StreamType", "LOCAL_FILE") ELSE @],
         d |-> r.d]

\* to_dict(self): one key per field not marked serialize="omit", then the hook
to_dict(self) ==
    post_serialize(self, [k \in FieldNames \ SerializeOmit |->
                              SerializeValue(FieldType(k), self[k])])

\* the value from_dict gives field f, or the error it raises for it
FromDictField(f, d, now) ==
    IF f \notin DOMAIN d
    THEN IF f \in RequiredFields THEN <<"MissingField">> ELSE FieldDefault(f, now)
    ELSE IF f \in DeserializePassThrough THEN d[f]
         ELSE DeserializeValue(FieldType(f), d[f])

IsError(v) == v \in {<<"MissingField">>, <<"InvalidFieldValue">>}

\* from_dict(d): fields are decoded in declaration order, the first error is raised
from_dict(d, now) ==
    LET parsed == [f \in FieldNames |-> FromDictField(f, d, now)]
        bad == {i \in DOMAIN FieldOrder : IsError(parsed[FieldOrder[i]])}
    IN  IF bad = {} THEN Ok(parsed)
        ELSE Raise(parsed[FieldOrder[CHOOSE i \in bad : \A j \in bad : i <= j]][1])

(***************************************************************************)
(* Inputs of the operations                                                *)
(***************************************************************************)
\* a non-default value a caller may give a field
SampleValue(f) ==
    CASE f = "provider" -> Str(s_cache)
      [] f = "item_id" -> Str(s_multi_file)
      [] f = "audio_format" -> AudioFormat("mp3")
      [] f = "media_type" -> Enum("MediaType", "RADIO")
      [] f = "stream_type" -> Enum("StreamType", "HLS")
      [] f = "duration" -> IntVal(180)
      [] f = "size" -> IntVal(1024)
      [] f = "stream_title" -> Str(s_cache)
      [] f = "path" -> Str(<<"/", "x">>)
      [] f = "data" -> Obj("payload")
      [] f = "extra_input_args" -> List(<<Str(<<"-", "v">>)>>)
      [] f = "decryption_key" -> Str(<<"k">>)
      [] f \in {"enable_cache", "stream_error"} -> Bool(FALSE)
      [] f \in {"allow_seek", "can_seek", "prefer_album_loudness",
                "strip_silence_begin", "strip_silence_end", "fade_in"} -> Bool(TRUE)
      [] f \in {"loudness", "loudness_album", "target_loudness"} -> FloatVal(-14)
      [] f \in {"volume_normalization_gain_correct", "seconds_streamed"} -> FloatVal(2)
      [] f = "volume_normalization_mode" -> Enum("VolumeNormalizationMode", "DYNAMIC")
      [] f = "dsp" -> DSPDict({"player1"})
      [] f = "seek_position" -> IntVal(30)
      [] f = "queue_id" -> Str(<<"q">>)
      [] f = "cache" -> Obj("cachefile")
      [] f = "created_at" -> Datetime(-1)

Samples(keys) == [f \in keys |-> SampleValue(f)]

Restrict(m, keys) == [k \in (DOMAIN m) \cap keys |-> m[k]]

\* the three mandatory keyword arguments
MandatoryKwargs ==
    [f \in RequiredFields |->
        CASE f = "provider" -> Str(s_spotify)
          [] f = "item_id" -> Str(s_123)
          [] f = "audio_format" -> AudioFormat("flac")]

\* keyword-argument sets given to the constructor: any subset of the mandatory
\* arguments alone; with them, every public optional field, every field excluded
\* from serialization, one stream type, the seek flags without a duration, or
\* strings that contain the rewritten stream-type values
Kwargs ==
    {Restrict(MandatoryKwargs, D) : D \in SUBSET RequiredFields}
    \cup {Samples((FieldNames \ SerializeOmit) \ RequiredFields) @@ MandatoryKwargs,
          Samples(SerializeOmit) @@ MandatoryKwargs}
    \cup {("stream_type" :> Enum("StreamType", m)) @@ MandatoryKwargs :
             m \in StreamTypeMembers}
    \cup {("allow_seek" :> Bool(a)) @@ ("can_seek" :> Bool(TRUE)) @@ MandatoryKwargs :
             a \in BOOLEAN}
    \cup {("stream_type" :> Enum("StreamType", m))
             @@ Samples({"provider", "item_id", "audio_format", "stream_title"}) :
             m \in {"CACHE", "ICY"}}

\* changes to a mapping handed to from_dict: keys set (added or overwritten)
WireOverlays ==
    {Samples(DeserializePassThrough),
     "seek_position" :> Str(s_cache),
     "created_at" :> None,
     "media_type" :> Str(s_radio),
     "volume_normalization_mode" :> Str(s_dynamic)}
    \cup {"stream_type" :> Str(EnumValue("StreamType", m)) : m \in StreamTypeMembers}
    \cup {f :> Str(s_unknown_value) :
             f \in {"stream_type", "media_type", "volume_normalization_mode"}}

\* keys a mapping handed to from_dict may lack
WireDrops == {"provider", "stream_type", "duration"}

\* the mapping an edit makes of b: b itself, b with keys set, b without one key
ApplyEdit(b, e) ==
    CASE e[1] = "keep" -> b
      [] e[1] = "set" -> e[2] @@ b
      [] e[1] = "drop" -> Restrict(b, (DOMAIN b) \ {e[2]})

EditOps ==
    {<<"keep">>} \cup {<<"set", o>> : o \in WireOverlays}
    \cup {<<"drop", k>> : k \in WireDrops}

\* the mapping edited: the output of to_dict for live record i (the newest one), or
\* (i = 0) the three mandatory keys alone
WireBase(live, i) ==
    IF i = 0
    THEN [f \in RequiredFields |-> SerializeValue(FieldType(f), MandatoryKwargs[f])]
    ELSE to_dict(live[i]).d

\* a value of field f other than the one r holds
OtherValue(r, f) ==
    IF r[f] # SampleValue(f) THEN SampleValue(f)
    ELSE IF f \in RequiredFields THEN MandatoryKwargs[f] ELSE FieldDefault(f, 0)

\* the records recs[i] is compared with: every live record, and recs[i] itself with
\* one compared field changed or with all the other fields changed
Others(live, i) ==
    {live[j] : j \in DOMAIN live}
    \cup {(f :> OtherValue(live[i], f)) @@ live[i] : f \in FieldNames \ CompareFalse}
    \cup {[f \in CompareFalse |-> OtherValue(live[i], f)] @@ live[i]}

(***************************************************************************)
(* State machine: a program that creates records and calls their methods   *)
(***************************************************************************)
\* what the last operation was given and what it returned: idx the record it was
\* called on or created (0: none), arg its argument, pre the records before a
\* to_dict call, out the mapping to_dict returned, val any other return value
Call(op, idx, arg, pre, err, out, val) ==
    [op |-> op, idx |-> idx, arg |-> arg, pre |-> pre, err |-> err, out |-> out,
     val |-> val]

Init ==
    /\ recs = << >>
    /\ clock = 0
    /\ last = Call("none", 0, << >>, << >>, "none", << >>, None)

\* StreamDetails(**kwargs)
Construct(kwargs) ==
    LET r == dataclass_init(kwargs, clock)
    IN  /\ clock < MaxOps
        /\ clock' = clock + 1
        /\ recs' = IF r.ok THEN Append(recs, r.rec) ELSE recs
        /\ last' = Call("init", IF r.ok THEN Len(recs) + 1 ELSE 0, kwargs, << >>,
                        r.err, << >>, None)

\* recs[i].to_dict()
ToDict(i) ==
    LET r == to_dict(recs[i])
    IN  /\ clock < MaxOps
        /\ clock' = clock + 1
        /\ recs' = [recs EXCEPT ![i] = r.self]
        /\ last' = Call("to_dict", i, << >>, recs, "none", r.d, None)

\* StreamDetails.from_dict(d)
FromDict(d) ==
    LET r == from_dict(d, clock)
    IN  /\ clock < MaxOps
        /\ clock' = clock + 1
        /\ recs' = IF r.ok THEN Append(recs, r.rec) ELSE recs
        /\ last' = Call("from_dict", IF r.ok THEN Len(recs) + 1 ELSE 0, d, << >>,
                        r.err, << >>, None)

\* recs[i].uri
GetUri(i) ==
    /\ clock < MaxOps
    /\ clock' = clock + 1
    /\ recs' = recs
    /\ last' = Call("uri", i, << >>, << >>, "none", << >>, uri(recs[i]))

\* str(recs[i])
GetStr(i) ==
    /\ clock < MaxOps
    /\ clock' = clock + 1
    /\ recs' = recs
    /\ last' = Call("str", i, << >>, << >>, "none", << >>, str(recs[i]))

\* recs[i] == other
Compare(i, other) ==
    /\ clock < MaxOps
    /\ clock' = clock + 1
    /\ recs' = recs
    /\ last' = Call("eq", i, other, << >>, "none", << >>,
                    Bool(dataclass_eq(recs[i], other)))

Next ==
    \/ \E kwargs \in Kwargs : Construct(kwargs)
    \/ \E i \in DOMAIN recs : ToDict(i)
    \/ \E i \in {0, Len(recs)}, e \in EditOps : FromDict(ApplyEdit(WireBase(recs, i), e))
    \/ \E i \in DOMAIN recs : GetUri(i)
    \/ \E i \in DOMAIN recs : GetStr(i)
    \/ \E i \in DOMAIN recs : \E other \in Others(recs, i) : Compare(i, other)

Spec == Init /\ [][Next]_vars

(***************************************************************************)
(* Properties                                                              *)
(***************************************************************************)
\* the 14 fields the specification calls server-only
ServerOnlyFields ==
    {"path", "data", "extra_input_args", "decryption_key", "allow_seek",
     "can_seek", "enable_cache", "fade_in", "seek_position", "queue_id",
     "seconds_streamed", "stream_error", "cache", "created_at"}

\* the 17 fields the specification calls public
PublicFields ==
    {"provider", "item_id", "audio_format", "media_type", "stream_type",
     "duration", "size", "stream_title", "loudness", "loudness_album",
     "prefer_album_loudness", "volume_normalization_mode",
     "volume_normalization_gain_correct", "target_loudness",
     "strip_silence_begin", "strip_silence_end", "dsp"}

\* the defaults the specification lists, for a record created at time t
ListedDefault(f, t) ==
    CASE f = "media_type" -> <<"MediaType", "TRACK">>
      [] f = "stream_type" -> <<"StreamType", "CUSTOM">>
      [] f \in {"allow_seek", "can_seek", "fade_in", "prefer_album_loudness",
                "strip_silence_begin", "strip_silence_end"} -> <<"bool", FALSE>>
      [] f = "seek_position" -> <<"int", 0>>
      [] f = "extra_input_args" -> <<"list", << >>>>
      [] f = "created_at" -> <<"datetime", t>>
      [] OTHER -> <<"None">>

\* the record the last operation was called on or created
Subject == recs[last.idx]

\* the record to_dict was last called on, as it was before the call
Serialized == last.pre[last.idx]

\* the members whose value the compatibility shim rewrites
Rewritten == {"CACHE", "MULTI_FILE"}

\* the last operation was from_dict on the unchanged to_dict output of live record j
DecodedFrom(j) ==
    /\ last.op = "from_dict"
    /\ j \in DOMAIN recs
    /\ j # last.idx
    /\ last.arg = to_dict(recs[j]).d

\* C1 as stated: deserializing the serialized form of any record, whatever its
\* stream_type, gives a record with the same value in every public field.
C1_RoundTripEveryStreamType ==
    \A j \in DOMAIN recs :
        DecodedFrom(j) =>
            /\ last.err = "none"
            /\ \A f \in PublicFields : Subject[f] = recs[j][f]

\* C1 amended: deserializing the serialized form of a record gives a record with the
\* same value in every public field other than stream_type; its stream_type is the
\* same too unless the original's is CACHE or MULTI_FILE, and then it is LOCAL_FILE.
C1_RoundTripUpToRemap ==
    \A j \in DOMAIN recs :
        DecodedFrom(j) =>
            /\ last.err = "none"
            /\ \A f \in PublicFields \ {"stream_type"} : Subject[f] = recs[j][f]
            /\ Subject["stream_type"] =
                   IF recs[j]["stream_type"][2] \in Rewritten
                   THEN <<"StreamType", "LOCAL_FILE">>
                   ELSE recs[j]["stream_type"]

C1_Witness ==
    \E j \in DOMAIN recs :
        /\ DecodedFrom(j)
        /\ recs[j]["stream_type"] = <<"StreamType", "MULTI_FILE">>
        /\ Subject["stream_type"] = <<"StreamType", "LOCAL_FILE">>

\* C2: the keys of a to_dict output are exactly the declared fields less the 14
\* server-only fields, whatever the record holds: none of the 14 appears and every
\* public field has a key even when its value is None.
C2_KeySet ==
    last.op = "to_dict" =>
        /\ DOMAIN last.out = FieldNames \ ServerOnlyFields
        /\ DOMAIN last.out = PublicFields
        /\ (DOMAIN last.out) \cap ServerOnlyFields = {}

C2_Witness ==
    /\ last.op = "to_dict"
    /\ \A f \in ServerOnlyFields \ {"created_at"} :
           Serialized[f] # ListedDefault(f, 0) /\ f \notin DOMAIN last.out
    /\ Serialized["duration"] = None
    /\ "duration" \in DOMAIN last.out

\* C3: the stream_type of a to_dict output is never "cache" nor "multi_file": it is
\* "local_file" for a CACHE or MULTI_FILE record and the member's own value for any
\* other record.
C3_StreamTypeRemap ==
    last.op = "to_dict" =>
        /\ last.out["stream_type"] \notin {Str(s_cache), Str(s_multi_file)}
        /\ last.out["stream_type"] =
               IF Serialized["stream_type"][2] \in Rewritten
               THEN Str(s_local_file)
               ELSE Str(EnumValue("StreamType", Serialized["stream_type"][2]))

C3_Witness ==
    /\ last.op = "to_dict"
    /\ Serialized["stream_type"] = <<"StreamType", "CACHE">>
    /\ last.out["stream_type"] = Str(s_local_file)

\* C4: two records compare equal exactly when all 17 public fields are equal, and
\* changing a server-only field of either record never changes the comparison.
C4_Equality ==
    /\ last.op = "eq" =>
           (last.val = Bool(TRUE)) = (\A f \in PublicFields : Subject[f] = last.arg[f])
    /\ last.op = "eq" =>
           \A f \in ServerOnlyFields :
               LET v == OtherValue(Subject, f)
                   w == OtherValue(last.arg, f)
               IN  /\ Bool(dataclass_eq([Subject EXCEPT ![f] = v], last.arg)) = last.val
                   /\ Bool(dataclass_eq(Subject, [last.arg EXCEPT ![f] = w])) = last.val

C4_Witness ==
    /\ last.op = "eq"
    /\ last.val = Bool(TRUE)
    /\ \A f \in {"created_at", "seconds_streamed", "cache"} : Subject[f] # last.arg[f]

\* the string value of a media type
MediaTypeText(m) ==
    CASE m = "TRACK" -> <<"t", "r", "a", "c", "k">>
      [] m = "RADIO" -> <<"r", "a", "d", "i", "o">>

UriText(r) ==
    r["provider"][2] \o <<":", "/", "/">> \o MediaTypeText(r["media_type"][2])
        \o <<"/">> \o r["item_id"][2]

\* C5: uri is provider + "://" + the media type's value + "/" + item_id, depends on
\* no other field, str(record) is the same string, and a record made with
\* provider "spotify", item_id "123" and no media_type reads "spotify://track/123".
C5_Uri ==
    /\ last.op \in {"uri", "str"} => last.val = Str(UriText(Subject))
    /\ last.op \in {"uri", "str"} =>
           \A f \in FieldNames \ {"provider", "media_type", "item_id"} :
               /\ uri([Subject EXCEPT ![f] = OtherValue(Subject, f)]) = last.val
               /\ str([Subject EXCEPT ![f] = OtherValue(Subject, f)]) = last.val
    /\ \A i \in DOMAIN recs :
           (/\ last.op = "init"
            /\ last.idx = i
            /\ "media_type" \notin DOMAIN last.arg
            /\ last.arg["provider"] = Str(<<"s", "p", "o", "t", "i", "f", "y">>)
            /\ last.arg["item_id"] = Str(<<"1", "2", "3">>))
           => /\ uri(recs[i]) = Str(<<"s", "p", "o", "t", "i", "f", "y", ":", "/", "/",
                                     "t", "r", "a", "c", "k", "/", "1", "2", "3">>)
              /\ str(recs[i]) = uri(recs[i])

C5_Witness ==
    /\ last.op = "str"
    /\ Subject["media_type"] = <<"MediaType", "RADIO">>
    /\ Subject["duration"] # None
    /\ last.val = Str(<<"s", "p", "o", "t", "i", "f", "y", ":", "/", "/",
                        "r", "a", "d", "i", "o", "/", "1", "2", "3">>)

\* the enumeration fields and their classes
EnumFields == {"media_type", "stream_type", "volume_normalization_mode"}

EnumClassOf(f) ==
    CASE f = "media_type" -> "MediaType"
      [] f = "stream_type" -> "StreamType"
      [] f = "volume_normalization_mode" -> "VolumeNormalizationMode"

\* w is the string value of member m of the enumeration of field f
IsValueOf(f, w, m) ==
    /\ m \in EnumMembers(EnumClassOf(f))
    /\ w = Str(EnumValue(EnumClassOf(f), m))

\* the mapping holds, for field f, a string that is no member's value
BadEnumKey(d, f) ==
    /\ f \in DOMAIN d
    /\ d[f] # None
    /\ ~ \E m \in EnumMembers(EnumClassOf(f)) : IsValueOf(f, d[f], m)

\* C6: from_dict of a mapping whose stream_type, media_type or
\* volume_normalization_mode string is no member's value raises and yields no
\* record; a string that is a member's value is accepted and gives exactly that
\* member: "local_file" gives LOCAL_FILE, "cache" CACHE and "multi_file" MULTI_FILE.
C6_EnumDecoding ==
    last.op = "from_dict" =>
        /\ (\E f \in EnumFields : BadEnumKey(last.arg, f))
               => last.err # "none" /\ last.idx = 0
        /\ (/\ \A f \in EnumFields : ~BadEnumKey(last.arg, f)
            /\ {"provider", "item_id", "audio_format"} \subseteq DOMAIN last.arg)
               => /\ last.err = "none"
                  /\ last.idx = Len(recs)
                  /\ \A f \in EnumFields \cap DOMAIN last.arg :
                         \A m \in EnumMembers(EnumClassOf(f)) :
                             IsValueOf(f, last.arg[f], m)
                                 => Subject[f] = <<EnumClassOf(f), m>>
        /\ (last.err = "none" /\ "stream_type" \in DOMAIN last.arg) =>
               /\ last.arg["stream_type"] = Str(<<"l", "o", "c", "a", "l", "_", "f", "i", "l", "e">>)
                      => Subject["stream_type"] = <<"StreamType", "LOCAL_FILE">>
               /\ last.arg["stream_type"] = Str(<<"c", "a", "c", "h", "e">>)
                      => Subject["stream_type"] = <<"StreamType", "CACHE">>
               /\ last.arg["stream_type"] = Str(<<"m", "u", "l", "t", "i", "_", "f", "i", "l", "e">>)
                      => Subject["stream_type"] = <<"StreamType", "MULTI_FILE">>

C6_Witness ==
    /\ last.op = "from_dict"
    /\ BadEnumKey(last.arg, "stream_type")
    /\ last.err # "none"
    /\ Len(recs) = 1

\* C7: from_dict stores the supplied value of a server-only key as it is, rejects no
\* mapping because of one, and gives a server-only field whose key is missing its
\* declared default; so a record decoded from a to_dict output has every
\* server-only field at its default.
C7_PassThrough ==
    last.op = "from_dict" =>
        /\ last.err = "none" =>
               \A f \in ServerOnlyFields :
                   Subject[f] = IF f \in DOMAIN last.arg THEN last.arg[f]
                                ELSE ListedDefault(f, clock - 1)
        /\ from_dict(Restrict(last.arg, PublicFields), clock - 1).ok => last.err = "none"
        /\ \A j \in DOMAIN recs :
               DecodedFrom(j) =>
                   \A f \in ServerOnlyFields : Subject[f] = ListedDefault(f, clock - 1)

C7_Witness ==
    /\ last.op = "from_dict"
    /\ last.err = "none"
    /\ "seek_position" \in DOMAIN last.arg
    /\ Subject["seek_position"] = Str(s_cache)
    /\ Subject["fade_in"] = Bool(FALSE)

\* C8: the constructor fails exactly when provider, item_id or audio_format is not
\* supplied; otherwise it stores every supplied value unchanged, whatever the
\* combination, and gives every other field its declared default.
C8_Construction ==
    last.op = "init" =>
        /\ (last.err # "none") =
               ~({"provider", "item_id", "audio_format"} \subseteq DOMAIN last.arg)
        /\ (last.err # "none") = (last.idx = 0)
        /\ last.err = "none" =>
               /\ last.idx = Len(recs)
               /\ DOMAIN Subject = FieldNames
               /\ \A f \in FieldNames :
                      Subject[f] = IF f \in DOMAIN last.arg THEN last.arg[f]
                                   ELSE ListedDefault(f, clock - 1)

C8_Witness ==
    /\ last.op = "init"
    /\ last.err = "none"
    /\ Subject["can_seek"] = Bool(TRUE)
    /\ Subject["allow_seek"] = Bool(TRUE)
    /\ Subject["duration"] = None
    /\ Subject["stream_type"] = <<"StreamType", "CUSTOM">>

\* C9: to_dict leaves every record as it was: the stream_type of a CACHE or
\* MULTI_FILE record stays CACHE or MULTI_FILE, every other field, the uri and the
\* comparison with every record are unchanged.
C9_SerializationFrame ==
    last.op = "to_dict" =>
        /\ Subject["stream_type"] = Serialized["stream_type"]
        /\ recs = last.pre
        /\ uri(Subject) = uri(Serialized)
        /\ \A j \in DOMAIN recs :
               dataclass_eq(Subject, recs[j]) = dataclass_eq(Serialized, last.pre[j])

C9_Witness ==
    /\ last.op = "to_dict"
    /\ last.out["stream_type"] = Str(s_local_file)
    /\ Subject["stream_type"] = <<"StreamType", "MULTI_FILE">>

\* the keys of a to_dict output whose value is the field's own value
PlainKeys ==
    {"provider", "item_id", "duration", "size", "stream_title", "loudness",
     "loudness_album", "prefer_album_loudness",
     "volume_normalization_gain_correct", "target_loudness",
     "strip_silence_begin", "strip_silence_end"}

\* C10: the shim rewrites the stream_type value alone: every other key of a to_dict
\* output carries its field's serialized value, also when that is the string
\* "cache" or "multi_file"; so records that compare equal serialize identically.
C10_RemapFrame ==
    /\ last.op = "to_dict" =>
           /\ \A k \in PlainKeys : last.out[k] = Serialized[k]
           /\ \A k \in (DOMAIN last.out) \ {"stream_type"} :
                  last.out[k] = SerializeValue(FieldType(k), Serialized[k])
    /\ (last.op = "eq" /\ last.val = Bool(TRUE)) =>
           to_dict(Subject).d = to_dict(last.arg).d

C10_Witness ==
    /\ last.op = "to_dict"
    /\ Serialized["stream_type"] = <<"StreamType", "CACHE">>
    /\ last.out["provider"] = Str(s_cache)
    /\ last.out["item_id"] = Str(s_multi_file)
    /\ last.out["stream_title"] = Str(s_cache)
    /\ last.out["stream_type"] = Str(s_local_file)

====
